---- MODULE Spec2Model ----
(***************************************************************************)
(* The image valuation request client of schoolassess:                     *)
(* inferImageWithGroq (src/src/lib/groqClient.ts, the revision with the    *)
(* retry loop, lines 140-285).  One call of the function is a state        *)
(* machine whose steps are the pieces of the async function between two    *)
(* awaits: the timers and the transport are the environment.               *)
(*                                                                         *)
(* Strings are sequences of lexemes (words and punctuation marks), so that *)
(* template literals are concatenations and String.prototype.includes is a *)
(* search for a contiguous run of lexemes.  JSON text is such a sequence   *)
(* too and is parsed, lexeme by lexeme, into JavaScript values.            *)
(***************************************************************************)
EXTENDS Integers, Sequences, FiniteSets, TLC

(***************************************************************************)
(* Bounds of the inputs.                                                   *)
(***************************************************************************)
\* The longest otherObjects list the upstream model answers with.
MaxOthers == 2

(***************************************************************************)
(* Program constants.                                                      *)
(***************************************************************************)
MAX_RETRIES == 3
INITIAL_RETRY_DELAY == 1000
\* The delay of the timer of the mock path.
MOCK_DELAY == 1000

(***************************************************************************)
(* Strings.                                                                *)
(***************************************************************************)
\* haystack.includes(needle)
Includes(haystack, needle) ==
    \E i \in 0..(Len(haystack) - Len(needle)) :
        \A j \in 1..Len(needle) : haystack[i + j] = needle[j]

\* The literal the catch block looks for in an error's message.
ServerErrorText == <<"server", "error">>

(***************************************************************************)
(* JavaScript values.  Numbers count hundredths, so that a confidence such *)
(* as 0.7 is the integer 70 and 450 is 45000.                              *)
(***************************************************************************)
Undefined == [js |-> "undefined"]
Null == [js |-> "null"]
Num(n) == [js |-> "number", n |-> n]
Str(s) == [js |-> "string", s |-> s]
Obj(props) == [js |-> "object", props |-> props]
Arr(items) == [js |-> "array", items |-> items]
EmptyProps == [k \in {} |-> Undefined]
EmptyArray == Arr(<<>>)

\* The truthiness the operator || tests.
Truthy(v) ==
    CASE v.js = "undefined" -> FALSE
      [] v.js = "null" -> FALSE
      [] v.js = "number" -> v.n # 0
      [] v.js = "string" -> v.s # <<>>
      [] OTHER -> TRUE

\* a || b
OrElse(a, b) == IF Truthy(a) THEN a ELSE b

\* The message of the TypeError of a property read on undefined or null.
TypeErrorMessage == <<"Cannot", "read", "properties", "of", "undefined">>

\* v[key]: [threw, val].  A read on undefined or null throws a TypeError; a
\* property a value does not have reads as undefined.  An array is read at
\* "0" only.
Get(v, key) ==
    CASE v.js \in {"undefined", "null"} -> [threw |-> TRUE, val |-> Undefined]
      [] v.js = "object" ->
            [threw |-> FALSE,
             val |-> IF key \in DOMAIN v.props THEN v.props[key] ELSE Undefined]
      [] v.js = "array" ->
            [threw |-> FALSE,
             val |-> IF key = "0" /\ Len(v.items) > 0 THEN v.items[1] ELSE Undefined]
      [] OTHER -> [threw |-> FALSE, val |-> Undefined]

\* v.k1.k2...: the reads of path, one after the other, the first TypeError
\* ending them.
RECURSIVE GetPath(_, _)
GetPath(v, path) ==
    IF path = <<>> THEN [threw |-> FALSE, val |-> v]
    ELSE LET r == Get(v, Head(path))
         IN  IF r.threw THEN r ELSE GetPath(r.val, Tail(path))

\* v?.key
GetOptional(v, key) ==
    IF v.js \in {"undefined", "null"} THEN [threw |-> FALSE, val |-> Undefined]
    ELSE Get(v, key)

(***************************************************************************)
(* JSON text.  The lexemes are { } [ ] : , the quote mark ', null, the     *)
(* numerals and words.  A string literal of one word is written as the     *)
(* word; any other string literal is written between quote marks.          *)
(***************************************************************************)
Quote == "'"
Punctuation == {"{", "}", "[", "]", ":", ",", Quote}
NumeralValue ==
    [l \in {"0", "80", "120", "450", "0.7", "0.9", "-5"} |->
        CASE l = "0" -> 0
          [] l = "80" -> 8000
          [] l = "120" -> 12000
          [] l = "450" -> 45000
          [] l = "0.7" -> 70
          [] l = "0.9" -> 90
          [] l = "-5" -> 0 - 500]
Numerals == DOMAIN NumeralValue
IsWord(l) == l \notin Punctuation /\ l \notin Numerals /\ l # "null"

ParseFail == [ok |-> FALSE, val |-> Undefined, rest |-> <<>>]
ParseOk(v, rest) == [ok |-> TRUE, val |-> v, rest |-> rest]

\* The lexemes of t up to its first quote mark: the body of a quoted string.
RECURSIVE UpToQuote(_)
UpToQuote(t) ==
    IF t = <<>> \/ Head(t) = Quote THEN <<>> ELSE <<Head(t)>> \o UpToQuote(Tail(t))

\* props with key set to v: a repeated key keeps its last value.
WithProp(props, key, v) ==
    [k \in DOMAIN props \cup {key} |-> IF k = key THEN v ELSE props[k]]

RECURSIVE ParseValue(_), ParseMembers(_, _), ParseElements(_, _)
\* One JSON value at the head of t: [ok, val, rest].
ParseValue(t) ==
    IF t = <<>> THEN ParseFail
    ELSE LET h == Head(t)
             r == Tail(t)
         IN  CASE h = "null" -> ParseOk(Null, r)
               [] h \in Numerals -> ParseOk(Num(NumeralValue[h]), r)
               [] h = Quote ->
                     LET s == UpToQuote(r)
                     IN  IF Len(s) < Len(r)
                         THEN ParseOk(Str(s), SubSeq(r, Len(s) + 2, Len(r)))
                         ELSE ParseFail
               [] h = "{" ->
                     IF r # <<>> /\ Head(r) = "}" THEN ParseOk(Obj(EmptyProps), Tail(r))
                     ELSE ParseMembers(r, EmptyProps)
               [] h = "[" ->
                     IF r # <<>> /\ Head(r) = "]" THEN ParseOk(EmptyArray, Tail(r))
                     ELSE ParseElements(r, <<>>)
               [] h \in Punctuation -> ParseFail
               [] OTHER -> ParseOk(Str(<<h>>), r)

\* The members of an object after its { or a comma: key : value, then , or }.
ParseMembers(t, props) ==
    IF Len(t) < 3 \/ ~IsWord(t[1]) \/ t[2] # ":" THEN ParseFail
    ELSE LET m == ParseValue(SubSeq(t, 3, Len(t)))
         IN  IF ~m.ok \/ m.rest = <<>> THEN ParseFail
             ELSE LET next == WithProp(props, t[1], m.val)
                  IN  CASE Head(m.rest) = "}" -> ParseOk(Obj(next), Tail(m.rest))
                        [] Head(m.rest) = "," -> ParseMembers(Tail(m.rest), next)
                        [] OTHER -> ParseFail

\* The elements of an array after its [ or a comma: value, then , or ].
ParseElements(t, items) ==
    LET e == ParseValue(t)
    IN  IF ~e.ok \/ e.rest = <<>> THEN ParseFail
        ELSE LET next == Append(items, e.val)
             IN  CASE Head(e.rest) = "]" -> ParseOk(Arr(next), Tail(e.rest))
                   [] Head(e.rest) = "," -> ParseElements(Tail(e.rest), next)
                   [] OTHER -> ParseFail

\* JSON.parse(text) of a string: [ok, val]; not ok is a SyntaxError.
JSONParseText(text) ==
    LET p == ParseValue(text)
    IN  IF p.ok /\ p.rest = <<>> THEN [ok |-> TRUE, val |-> p.val]
        ELSE [ok |-> FALSE, val |-> Undefined]

\* JSON.parse(v): a value that is no string is turned into one first, so that
\* null and a number parse to themselves and undefined or an object does not
\* parse.
JSONParse(v) ==
    CASE v.js = "string" -> JSONParseText(v.s)
      [] v.js \in {"null", "number"} -> [ok |-> TRUE, val |-> v]
      [] OTHER -> [ok |-> FALSE, val |-> Undefined]

\* `${v}`: the string of a value in a template literal.
ToStr(v) ==
    CASE v.js = "string" -> v.s
      [] v.js = "number" -> <<CHOOSE l \in Numerals : NumeralValue[l] = v.n>>
      [] v.js = "array" -> <<>>
      [] v.js = "object" -> <<"[object", "Object]">>
      [] OTHER -> <<v.js>>

(***************************************************************************)
(* The answers of the transport: what the upstream API, or whatever stands *)
(* between it and the browser, may send.                                    *)
(***************************************************************************)
RECURSIVE Join(_, _)
\* The sequences of parts one after the other, sep between two of them.
Join(parts, sep) ==
    IF parts = <<>> THEN <<>>
    ELSE IF Len(parts) = 1 THEN parts[1]
    ELSE parts[1] \o <<sep>> \o Join(Tail(parts), sep)

\* The text of an object whose members are the pairs <<key, text of value>>.
ObjectText(members) ==
    <<"{">> \o Join([i \in 1..Len(members) |-> <<members[i][1], ":">> \o members[i][2]], ",")
            \o <<"}">>
ArrayText(elements) == <<"[">> \o Join(elements, ",") \o <<"]">>
QuotedText(s) == <<Quote>> \o s \o <<Quote>>

\* The secondary objects the upstream model may report, as it writes them.
OtherObjectPool ==
    { [name |-> "Cart", estimatedValue |-> "80", confidence |-> "0.7"],
      [name |-> "Chair", estimatedValue |-> "120", confidence |-> "0.9"] }
OtherObjectLists == UNION { [1..n -> OtherObjectPool] : n \in 0..MaxOthers }
ItemNames == {"Projector", "Desk"}
ItemValues == {"450", "120"}

OtherObjectText(o) ==
    ObjectText(<< <<"name", <<o.name>> >>,
                  <<"estimatedValue", <<o.estimatedValue>> >>,
                  <<"confidence", <<o.confidence>> >> >>)
MainItemText(name, value) ==
    ObjectText(<< <<"name", <<name>> >>, <<"estimatedValue", <<value>> >> >>)
\* The content the system prompt asks for: mainItem and otherObjects.
ValuationText(name, value, others) ==
    ObjectText(<< <<"mainItem", MainItemText(name, value)>>,
                  <<"otherObjects",
                    ArrayText([i \in 1..Len(others) |-> OtherObjectText(others[i])])>> >>)
\* The same without the otherObjects list.
ValuationTextNoOthers(name, value) ==
    ObjectText(<< <<"mainItem", MainItemText(name, value)>> >>)

WellFormedContents ==
    { ValuationText(n, v, o) : n \in ItemNames, v \in ItemValues, o \in OtherObjectLists }
    \cup { ValuationTextNoOthers(n, v) : n \in ItemNames, v \in ItemValues }
\* Structured content whose primary item lacks its name or its value.
ContentNoName == ObjectText(<< <<"mainItem", ObjectText(<< <<"estimatedValue", <<"120">> >> >>)>> >>)
ContentNoValue == ObjectText(<< <<"mainItem", ObjectText(<< <<"name", <<"Desk">> >> >>)>> >>)
IncompleteContents ==
    { ContentNoName, ContentNoValue,
      <<"{", "}">>,
      ObjectText(<< <<"mainItem", <<"null">> >> >>),
      ObjectText(<< <<"mainItem", MainItemText("Desk", "120")>>, <<"otherObjects", <<"null">> >> >>),
      ObjectText(<< <<"mainItem", MainItemText("Desk", "-5")>> >>),
      ObjectText(<< <<"mainItem", MainItemText("Desk", "cheap")>> >>) }
\* Content that is no JSON text.
ProseContents == { <<"I", "see", "a", "desk">>, <<"{", "mainItem", ":">> }
Contents == WellFormedContents \cup IncompleteContents \cup ProseContents

\* The body of a chat completion whose first choice carries content.
CompletionBody(content) ==
    ObjectText(<< <<"choices",
        ArrayText(<< ObjectText(<< <<"message",
            ObjectText(<< <<"content", QuotedText(content)>> >>)>> >>) >>)>> >>)
\* The body of a completion without content (content: null).
CompletionBodyNullContent ==
    ObjectText(<< <<"choices",
        ArrayText(<< ObjectText(<< <<"message",
            ObjectText(<< <<"content", <<"null">> >> >>)>> >>) >>)>> >>)

\* The messages of upstream error bodies.
UpstreamMessages == { <<"bad", "request">>, <<"internal", "server", "error">>, <<>> }
ErrorBody(message) ==
    ObjectText(<< <<"error", ObjectText(<< <<"message", QuotedText(message)>> >>)>> >>)
\* Bodies that are no JSON text: an HTML error page, a plain-text error.
TextBodies == { <<"<html>", "Service", "Unavailable", "</html>">>, <<"server", "error">> }
Bodies ==
    { CompletionBody(c) : c \in Contents }
    \cup { CompletionBodyNullContent, <<"{", "}">>, <<"null">> }
    \cup { ErrorBody(m) : m \in UpstreamMessages }
    \cup TextBodies

Statuses == {200, 400, 404, 500, 503}
ReasonPhrase(status) ==
    CASE status = 200 -> <<"OK">>
      [] status = 400 -> <<"Bad", "Request">>
      [] status = 404 -> <<"Not", "Found">>
      [] status = 500 -> <<"Internal", "Server", "Error">>
      [] OTHER -> <<"Service", "Unavailable">>
\* statusText is the reason phrase, or empty (HTTP/2 has none).
Responses ==
    { [status |-> st, statusText |-> tx, body |-> b] :
        st \in Statuses, tx \in {<<>>}, b \in Bodies }
    \cup { [status |-> st, statusText |-> ReasonPhrase(st), body |-> b] :
        st \in Statuses, b \in Bodies }
NoResponse == [status |-> 0, statusText |-> <<>>, body |-> <<>>]
\* response.ok
Ok(status) == status >= 200 /\ status <= 299

\* The messages fetch rejects with when the network fails.
FaultMessages ==
    { <<"Failed", "to", "fetch">>,
      <<"NetworkError", "when", "attempting", "to", "fetch", "resource", ".">> }
\* The images a caller passes: none, or a data URL.
Images == { <<>>, <<"data:image/jpeg;base64,AAAA">> }

(***************************************************************************)
(* The state of one call of inferImageWithGroq and of its environment.     *)
(***************************************************************************)
VARIABLES
    apiKey,             \* whether VITE_GROQ_API_KEY is set
    engineQuotesInput,  \* whether the engine's SyntaxError message quotes the text
    imageDataUrl,       \* the argument of the call
    pc,                 \* where the call stands
    attempt,            \* the loop variable
    lastError,          \* the local lastError
    requests,           \* the image of every request handed to fetch, in order
    waits,              \* the delay of every timer the call set, in order
    log,                \* the status of every answer of the transport (0: a fault)
    response,           \* the response of the latest attempt
    outcome,            \* the promise the call returned
    pool,               \* the calls of the caller that runs several of them
    relay,              \* the relay endpoint's handling of one request
    admin,              \* the scanner page of a school's administrator
    auth                \* the sign-in and sign-up page

\* The state outside the single call.
outside == <<pool, relay, admin, auth>>

vars == <<apiKey, engineQuotesInput, imageDataUrl, pc, attempt, lastError,
          requests, waits, log, response, outcome, pool, relay, admin, auth>>

\* The number of transport attempts made.
calls == Len(requests)

NoError == [name |-> "null", message |-> <<>>]
Error(message) == [name |-> "Error", message |-> message]
TypeError == [name |-> "TypeError", message |-> TypeErrorMessage]
\* error instanceof Error
InstanceOfError(e) == e.name \in {"Error", "TypeError", "SyntaxError"}

Pending == [state |-> "pending"]
Fulfilled(value) == [state |-> "fulfilled", value |-> value]
Rejected(error) == [state |-> "rejected", error |-> error]

RECURSIVE Pow2(_)
\* Math.pow(2, n)
Pow2(n) == IF n <= 0 THEN 1 ELSE 2 * Pow2(n - 1)

\* A faulty backoff: the exponent is the loop variable, not one less.
BackoffDelayOffByOne(a) == INITIAL_RETRY_DELAY * Pow2(a)

\* The delay of the backoff before the attempt with loop variable a > 0.
BackoffDelay(a) == INITIAL_RETRY_DELAY * Pow2(a - 1)

\* What one pass through the loop body ends with.
Return(value) == [kind |-> "return", value |-> value, error |-> NoError]
Throw(error) == [kind |-> "throw", value |-> Undefined, error |-> error]

\* response.json(): the body parsed, or a SyntaxError whose message, on an
\* engine that does so, quotes the text.
ResponseJson(body, quotes) ==
    LET p == JSONParseText(body)
    IN  IF p.ok THEN [threw |-> FALSE, val |-> p.val, error |-> NoError]
        ELSE [threw |-> TRUE, val |-> Undefined,
              error |-> [name |-> "SyntaxError",
                         message |-> <<"Unexpected", "token">>
                                         \o (IF quotes THEN body ELSE <<>>)]]

\* The error of a response that is not ok.
ServerErrorMessage(status, message) ==
    <<"Groq", "API", "server", "error", "(", ToString(status), ")", ":">>
        \o ToStr(OrElse(message, Str(<<"Service", "temporarily", "unavailable">>)))
ClientErrorMessage(statusText, message) ==
    <<"Groq", "API", "error", ":">> \o ToStr(OrElse(message, Str(statusText)))
NotOkError(resp, errorData) ==
    LET e == Get(errorData, "error")
    IN  IF e.threw THEN TypeError
        ELSE LET m == GetOptional(e.val, "message").val
             IN  IF resp.status >= 500
                 THEN Error(ServerErrorMessage(resp.status, m))
                 ELSE Error(ClientErrorMessage(resp.statusText, m))

\* A faulty default: the list is passed on as read, without || [].
DetectedObjectsAsRead(otherObjects) == otherObjects

\* parsedContent.otherObjects || []
DetectedObjectsOf(otherObjects) == OrElse(otherObjects, EmptyArray)

\* A faulty result: the secondary objects are read under the result's own
\* key, detectedObjects, which the content does not have.
ResultOfWrongKey(parsedContent) ==
    LET mainItem == Get(parsedContent, "mainItem")
    IN  IF mainItem.threw \/ Get(mainItem.val, "name").threw THEN Throw(TypeError)
        ELSE Return([itemName |-> Get(mainItem.val, "name").val,
                     estimatedValue |-> Get(mainItem.val, "estimatedValue").val,
                     detectedObjects |->
                         DetectedObjectsOf(Get(parsedContent, "detectedObjects").val)])

\* The object the call returns for the parsed content.
ResultOf(parsedContent) ==
    LET mainItem == Get(parsedContent, "mainItem")
    IN  IF mainItem.threw \/ Get(mainItem.val, "name").threw THEN Throw(TypeError)
        ELSE Return([itemName |-> Get(mainItem.val, "name").val,
                     estimatedValue |-> Get(mainItem.val, "estimatedValue").val,
                     detectedObjects |->
                         DetectedObjectsOf(Get(parsedContent, "otherObjects").val)])

InvalidFormatError == Error(<<"Invalid", "response", "format", "from", "model">>)

\* The rest of the try block once data is read from an ok response.
FromData(data) ==
    LET content == GetPath(data, <<"choices", "0", "message", "content">>)
    IN  IF content.threw THEN Throw(TypeError)
        ELSE LET parsed == JSONParse(content.val)
             IN  IF ~parsed.ok THEN Throw(InvalidFormatError)
                 ELSE ResultOf(parsed.val)

\* The try block from the response on.
FromResponse(resp, quotes) ==
    LET json == ResponseJson(resp.body, quotes)
    IN  IF json.threw THEN Throw(json.error)
        ELSE IF ~Ok(resp.status) THEN Throw(NotOkError(resp, json.val))
        ELSE FromData(json.val)

\* A faulty catch block: every error is retried while attempts remain.
RetriesEveryError(error) == FALSE

\* The catch block's test: an error that is thrown on at once.
NotRetried(error) == InstanceOfError(error) /\ ~Includes(error.message, ServerErrorText)

ExhaustedError(last) ==
    Error(<<"Failed", "to", "reach", "Groq", "API", "after", ToString(MAX_RETRIES),
            "attempts", ".", "Last", "error", ":">> \o last.message)
UnexpectedError == Error(<<"Unexpected", "error", "in", "retry", "loop">>)

\* A faulty test: the last attempt is taken to be the one after it.
IsLastAttemptOffByOne(a) == a = MAX_RETRIES

\* attempt === MAX_RETRIES - 1
IsLastAttempt(a) == a = MAX_RETRIES - 1

\* The loop from its test with the loop variable at a, up to the next await
\* or the end of the call.
EnterLoop(a) ==
    /\ attempt' = a
    /\ IF a < MAX_RETRIES
       THEN IF a > 0
            THEN /\ pc' = "sleep"
                 /\ waits' = Append(waits, BackoffDelay(a))
                 /\ UNCHANGED <<requests, outcome>>
            ELSE /\ pc' = "fetch"
                 /\ requests' = Append(requests, imageDataUrl)
                 /\ UNCHANGED <<waits, outcome>>
       ELSE /\ pc' = "done"
            /\ outcome' = Rejected(UnexpectedError)
            /\ UNCHANGED <<requests, waits>>

\* The catch block, and what follows it.
Catch(error) ==
    /\ lastError' = error
    /\ IF NotRetried(error)
       THEN /\ pc' = "done"
            /\ outcome' = Rejected(error)
            /\ UNCHANGED <<attempt, requests, waits>>
       ELSE IF IsLastAttempt(attempt)
       THEN /\ pc' = "done"
            /\ outcome' = Rejected(ExhaustedError(error))
            /\ UNCHANGED <<attempt, requests, waits>>
       ELSE EnterLoop(attempt + 1)

\* No call in the pool, no request at the relay, no page open.
NoPool == <<>>
NoRelay == [pc |-> "none"]
NoAdmin == [page |-> "none"]
NoAuth == [page |-> "none"]

Init ==
    /\ apiKey \in BOOLEAN
    /\ engineQuotesInput \in BOOLEAN
    /\ imageDataUrl \in Images
    /\ pc = "idle"
    /\ attempt = 0
    /\ lastError = NoError
    /\ requests = <<>>
    /\ waits = <<>>
    /\ log = <<>>
    /\ response = NoResponse
    /\ outcome = Pending
    /\ pool = NoPool
    /\ relay = NoRelay
    /\ admin = NoAdmin
    /\ auth = NoAuth

\* A faulty mock: the 50 is not added to the draw.
MockResultNoOffset(r) ==
    [itemName |-> Str(<<"Sample", "Item", "(Mocked)">>),
     estimatedValue |-> Num(r * 100),
     detectedObjects |-> EmptyArray]

\* The mock data for the draw r = Math.floor(Math.random() * 1000).
MockResult(r) ==
    [itemName |-> Str(<<"Sample", "Item", "(Mocked)">>),
     estimatedValue |-> Num((r + 50) * 100),
     detectedObjects |-> EmptyArray]

\* The call, up to its first await: the mock's timer, or the first fetch.
Invoke ==
    /\ pc = "idle"
    /\ IF ~apiKey
       THEN /\ pc' = "mock"
            /\ waits' = Append(waits, MOCK_DELAY)
            /\ UNCHANGED <<attempt, lastError, requests, outcome>>
       ELSE /\ lastError' = NoError
            /\ EnterLoop(0)
    /\ UNCHANGED <<apiKey, engineQuotesInput, imageDataUrl, log, response>>
    /\ UNCHANGED outside

\* The mock's timer fires: Math.floor(Math.random() * 1000) + 50.
MockTimerFires ==
    /\ pc = "mock"
    /\ \E r \in 0..999 :
         outcome' = Fulfilled(MockResult(r))
    /\ pc' = "done"
    /\ UNCHANGED <<apiKey, engineQuotesInput, imageDataUrl, attempt, lastError,
                   requests, waits, log, response>>
    /\ UNCHANGED outside

\* The backoff timer fires: the next fetch.
SleepEnds ==
    /\ pc = "sleep"
    /\ pc' = "fetch"
    /\ requests' = Append(requests, imageDataUrl)
    /\ UNCHANGED <<apiKey, engineQuotesInput, imageDataUrl, attempt, lastError,
                   waits, log, response, outcome>>
    /\ UNCHANGED outside

\* fetch rejects: the network failed.
FetchRejects ==
    /\ pc = "fetch"
    /\ \E m \in FaultMessages : Catch([name |-> "TypeError", message |-> m])
    /\ log' = Append(log, 0)
    /\ response' = NoResponse
    /\ UNCHANGED <<apiKey, engineQuotesInput, imageDataUrl>>
    /\ UNCHANGED outside

\* fetch resolves with a response, whose body is then awaited.
FetchResponds ==
    /\ pc = "fetch"
    /\ \E resp \in Responses :
         /\ response' = resp
         /\ log' = Append(log, resp.status)
    /\ pc' = "json"
    /\ UNCHANGED <<apiKey, engineQuotesInput, imageDataUrl, attempt, lastError,
                   requests, waits, outcome>>
    /\ UNCHANGED outside

\* The body is read: the rest of the try block, and the catch block.
BodySettles ==
    /\ pc = "json"
    /\ LET r == FromResponse(response, engineQuotesInput)
       IN  IF r.kind = "return"
           THEN /\ pc' = "done"
                /\ outcome' = Fulfilled(r.value)
                /\ UNCHANGED <<attempt, lastError, requests, waits>>
           ELSE Catch(r.error)
    /\ UNCHANGED <<apiKey, engineQuotesInput, imageDataUrl, log, response>>
    /\ UNCHANGED outside

Next ==
    \/ Invoke
    \/ MockTimerFires
    \/ SleepEnds
    \/ FetchRejects
    \/ FetchResponds
    \/ BodySettles

Spec == Init /\ [][Next]_vars

(***************************************************************************)
(* What the properties below speak of.                                     *)
(***************************************************************************)
\* The latest answer of the transport has gone through the try and catch
\* blocks.
Handled == log # <<>> /\ pc # "json"
\* The first answer, and no other yet, has.
FirstHandled == Len(log) = 1 /\ pc # "json"
LastStatus == log[Len(log)]
IsClientError(status) == status >= 400 /\ status <= 499
IsServerError(status) == status >= 500

\* The value the upstream model wrote as the secondary object o.
ExpectedObject(o) ==
    Obj([name |-> Str(<<o.name>>),
         estimatedValue |-> Num(NumeralValue[o.estimatedValue]),
         confidence |-> Num(NumeralValue[o.confidence])])
ExpectedObjects(others) == Arr([i \in 1..Len(others) |-> ExpectedObject(others[i])])

\* C1: a first response with a status in 400..499 ends the call at once: one
\* transport attempt, no backoff wait, and a rejection whose error carries the
\* message the upstream sent, whatever that message says.
C1_ClientErrorFailsAtOnce ==
    (FirstHandled /\ IsClientError(response.status)) =>
        /\ pc = "done"
        /\ calls = 1
        /\ waits = <<>>
        /\ outcome.state = "rejected"
        /\ \A m \in UpstreamMessages \ {<<>>} :
               response.body = ErrorBody(m) => Includes(outcome.error.message, m)

\* C2: after a 503 on attempt 1 the call waits the base delay and sends again,
\* and a valid success response on attempt 2 is returned parsed, after exactly
\* 2 attempts.
C2_RetryOnceThenSuccess ==
    (log # <<>> /\ log[1] = 503 /\ ~(Len(log) = 1 /\ pc = "json")) =>
        /\ ~(pc = "done" /\ Len(log) = 1)
        /\ Len(waits) >= 1
        /\ waits[1] = INITIAL_RETRY_DELAY
        /\ \A n \in ItemNames, v \in ItemValues, o \in OtherObjectLists :
               ( /\ Len(log) = 2
                 /\ pc # "json"
                 /\ Ok(response.status)
                 /\ response.body = CompletionBody(ValuationText(n, v, o)) ) =>
                   /\ pc = "done"
                   /\ calls = 2
                   /\ waits = <<INITIAL_RETRY_DELAY>>
                   /\ outcome = Fulfilled([itemName |-> Str(<<n>>),
                                           estimatedValue |-> Num(NumeralValue[v]),
                                           detectedObjects |-> ExpectedObjects(o)])

\* C3: when every answer is a 5xx status the call makes MAX_RETRIES attempts
\* and no more, and then rejects with an error that states the number of
\* attempts and wraps the message of the last server error.
C3_ExhaustsAfterMaxAttempts ==
    (Handled /\ \A i \in 1..Len(log) : IsServerError(log[i])) =>
        /\ calls <= MAX_RETRIES
        /\ pc = "done" =>
              /\ calls = MAX_RETRIES
              /\ outcome.state = "rejected"
              /\ Includes(outcome.error.message, <<ToString(MAX_RETRIES), "attempts">>)
              /\ Includes(outcome.error.message,
                          <<"server", "error", "(", ToString(response.status), ")">>)

\* C4: a rejected fetch is transient as a 5xx response is: while attempts
\* remain the call backs off and sends again, and after the last attempt it
\* rejects with the error of exhausted retries.
C4_FaultIsTransient ==
    (log # <<>> /\ LastStatus = 0) =>
        IF Len(log) < MAX_RETRIES
        THEN pc \in {"sleep", "fetch"}
        ELSE /\ pc = "done"
             /\ outcome.state = "rejected"
             /\ Includes(outcome.error.message, <<ToString(MAX_RETRIES), "attempts">>)

\* A response that fails structural validation: ok, and its body or the
\* content in it is no JSON text, or the primary item lacks name or value.
IsMalformed(resp) ==
    /\ Ok(resp.status)
    /\ \/ resp.body \in TextBodies
       \/ \E c \in ProseContents \cup {ContentNoName, ContentNoValue} :
              resp.body = CompletionBody(c)

\* C5: the call never makes more than MAX_RETRIES attempts, and after a
\* terminal failure (a 4xx response, a malformed response) it makes no
\* further attempt.
C5_BoundedAndTerminalStops ==
    /\ calls <= MAX_RETRIES
    /\ (Handled /\ (IsClientError(response.status) \/ IsMalformed(response))) =>
           /\ calls = Len(log)
           /\ pc = "done"

\* C6: the wait before the attempt with index a is INITIAL_RETRY_DELAY *
\* 2^(a-1) for a >= 1 and none for a = 0, that is 1000 before the second
\* attempt and 2000 before the third, and no wait follows the last attempt.
C6_BackoffDelays ==
    apiKey =>
        /\ \A a \in 1..Len(waits) : waits[a] = INITIAL_RETRY_DELAY * (2 ^ (a - 1))
        /\ \E k \in 0..2 : waits = SubSeq(<<1000, 2000>>, 1, k)
        /\ Len(waits) = (IF pc = "sleep" THEN calls ELSE IF calls = 0 THEN 0 ELSE calls - 1)
        /\ Len(waits) <= MAX_RETRIES - 1
        /\ (pc = "sleep" => calls < MAX_RETRIES)
C6_Witness == pc = "done" /\ calls = MAX_RETRIES /\ waits = <<1000, 2000>>

\* C7: a success response whose content is structured data with a primary
\* item that lacks its name, or its value, yields no result: the call rejects
\* after that one attempt.
C7_MissingNameOrValueFails ==
    ( /\ FirstHandled
      /\ Ok(response.status)
      /\ response.body \in {CompletionBody(ContentNoName), CompletionBody(ContentNoValue)} ) =>
        /\ pc = "done"
        /\ outcome.state = "rejected"
        /\ calls = 1

\* C8: a success response whose content is no JSON text ends the call at
\* once with the invalid-format error: no attempt and no wait follows it,
\* though attempts remain.
C8_UnparsableContentFailsAtOnce ==
    (Handled /\ Ok(response.status)
             /\ \E c \in ProseContents : response.body = CompletionBody(c)) =>
        /\ pc = "done"
        /\ outcome = Rejected(InvalidFormatError)
        /\ calls = Len(log)
        /\ Len(waits) = Len(log) - 1
C8_Witness ==
    /\ pc = "done"
    /\ calls = 1
    /\ Ok(response.status)
    /\ response.body = CompletionBody(<<"I", "see", "a", "desk">>)
    /\ outcome.state = "rejected"

\* C9: a success response with a valid primary item and no otherObjects list
\* is returned with detectedObjects the empty sequence.
C9_AbsentOthersIsEmpty ==
    \A n \in ItemNames, v \in ItemValues :
        ( /\ Handled
          /\ Ok(response.status)
          /\ response.body = CompletionBody(ValuationTextNoOthers(n, v)) ) =>
            /\ pc = "done"
            /\ outcome.state = "fulfilled"
            /\ outcome.value.detectedObjects = EmptyArray
C9_Witness ==
    /\ pc = "done"
    /\ outcome.state = "fulfilled"
    /\ response.body = CompletionBody(ValuationTextNoOthers("Desk", "120"))

\* C10: for a well-formed success response the result has the primary item's
\* name and value, and detectedObjects is the otherObjects list, the same
\* elements in the same order.
C10_ResultMirrorsResponse ==
    \A n \in ItemNames, v \in ItemValues :
        /\ \A o \in OtherObjectLists :
               ( /\ Handled
                 /\ Ok(response.status)
                 /\ response.body = CompletionBody(ValuationText(n, v, o)) ) =>
                   outcome = Fulfilled([itemName |-> Str(<<n>>),
                                        estimatedValue |-> Num(NumeralValue[v]),
                                        detectedObjects |-> ExpectedObjects(o)])
        /\ ( /\ Handled
             /\ Ok(response.status)
             /\ response.body = CompletionBody(ValuationTextNoOthers(n, v)) ) =>
               /\ outcome.state = "fulfilled"
               /\ outcome.value.itemName = Str(<<n>>)
               /\ outcome.value.estimatedValue = Num(NumeralValue[v])
C10_Witness ==
    /\ pc = "done"
    /\ outcome.state = "fulfilled"
    /\ \E o \in OtherObjectLists :
         /\ Len(o) = 2
         /\ o[1] # o[2]
         /\ response.body = CompletionBody(ValuationText("Projector", "450", o))
         /\ outcome.value.detectedObjects = ExpectedObjects(o)

\* C11: a call with an empty image payload fails before any transport call:
\* it never hands a request to fetch, and when it settles it is rejected.
C11_EmptyInputFailsFast ==
    imageDataUrl = <<>> =>
        /\ calls = 0
        /\ (pc = "done" => outcome.state = "rejected")

\* C12: every result the call returns has a non-empty string itemName and a
\* number estimatedValue that is >= 0.
C12_ResultIsValid ==
    outcome.state = "fulfilled" =>
        /\ outcome.value.itemName.js = "string"
        /\ outcome.value.itemName.s # <<>>
        /\ outcome.value.estimatedValue.js = "number"
        /\ outcome.value.estimatedValue.n >= 0

(***************************************************************************)
(* Several calls of inferImageWithGroq made by one caller, one after the   *)
(* other or at the same time.  Each call has its own locals (attempt and   *)
(* lastError are declared inside the function) and its own promise; the    *)
(* API key and the engine are the module's.  The caller may abandon a call *)
(* that waits in backoff: the function takes no signal and clears no       *)
(* timer, so abandoning changes nothing the function reads.                *)
(***************************************************************************)
\* The number of calls the caller makes.
NumCalls == 2
Calls == 1..NumCalls

\* The answers of the transport the calls of the pool are given.
PoolResponses ==
    { [status |-> 503, statusText |-> <<>>, body |-> ErrorBody(<<"bad", "request">>)],
      [status |-> 503, statusText |-> <<>>, body |-> <<"<html>", "Service", "Unavailable", "</html>">>],
      [status |-> 400, statusText |-> <<>>, body |-> ErrorBody(<<"bad", "request">>)],
      [status |-> 200, statusText |-> <<>>, body |-> CompletionBody(ValuationTextNoOthers("Desk", "120"))],
      [status |-> 200, statusText |-> <<>>, body |-> CompletionBody(<<"I", "see", "a", "desk">>)] }
PoolFaults == { <<"Failed", "to", "fetch">> }
\* The values of Math.floor(Math.random() * 1000) the pool's mocks draw.
PoolDraws == {0, 999}

FaultAnswer(message) == [fault |-> TRUE, message |-> message, response |-> NoResponse]
ResponseAnswer(resp) == [fault |-> FALSE, message |-> <<>>, response |-> resp]

\* A call not yet made.  answers: what the transport gave it, in order; draw:
\* what its mock drew; after: the calls that had settled when it was made;
\* abandonedAt: the number of its requests when the caller abandoned it.
IdleCall(image) ==
    [image |-> image, pc |-> "idle", attempt |-> 0, lastError |-> NoError,
     requests |-> <<>>, waits |-> <<>>, answers |-> <<>>, response |-> NoResponse,
     outcome |-> Pending, draw |-> 0 - 1, after |-> {}, abandonedAt |-> 0 - 1]

\* A faulty module: attempt and lastError are declared once, outside the
\* function, so that every call reads the ones of the first.
LocalsShared(p, i) ==
    [p[i] EXCEPT !.attempt = p[1].attempt, !.lastError = p[1].lastError]

\* A faulty module: the loop variable is declared once, outside the function,
\* so that a failure of any call counts against every call.
LocalsBudgetShared(p, i) ==
    [p[i] EXCEPT !.attempt =
        CHOOSE a \in {p[k].attempt : k \in Calls} :
            \A k \in Calls : p[k].attempt <= a]

\* The call i with its locals: each call has its own.
LocalsOf(p, i) == p[i]

\* A faulty sleep: the timer's callback is not resolve.
SleepNeverResolves(ms) == FALSE

\* sleep(ms): the promise resolves when the timer fires.
SleepResolves(ms) == TRUE

\* The loop of call c from its test with the loop variable at a.
LoopEntered(c, a) ==
    IF a < MAX_RETRIES
    THEN IF a > 0
         THEN [c EXCEPT !.attempt = a, !.pc = "sleep",
                        !.waits = Append(@, BackoffDelay(a))]
         ELSE [c EXCEPT !.attempt = a, !.pc = "fetch",
                        !.requests = Append(@, c.image)]
    ELSE [c EXCEPT !.attempt = a, !.pc = "done", !.outcome = Rejected(UnexpectedError)]

\* The catch block of call c, and what follows it.
Caught(c, error) ==
    LET d == [c EXCEPT !.lastError = error]
    IN  IF NotRetried(error)
        THEN [d EXCEPT !.pc = "done", !.outcome = Rejected(error)]
        ELSE IF IsLastAttempt(c.attempt)
        THEN [d EXCEPT !.pc = "done", !.outcome = Rejected(ExhaustedError(error))]
        ELSE LoopEntered(d, c.attempt + 1)

\* The call c made, up to its first await.
Invoked(c, key) ==
    IF ~key
    THEN [c EXCEPT !.pc = "mock", !.waits = Append(@, MOCK_DELAY)]
    ELSE LoopEntered([c EXCEPT !.lastError = NoError], 0)

\* What the try block makes of each answer of the pool, by the engine's way
\* of quoting the input in its messages.
PoolReadings ==
    [resp \in PoolResponses |-> [quotes \in BOOLEAN |-> FromResponse(resp, quotes)]]

\* The rest of the try block of call c once the body is read.
BodySettled(c, quotes) ==
    LET r == PoolReadings[c.response][quotes]
    IN  IF r.kind = "return"
        THEN [c EXCEPT !.pc = "done", !.outcome = Fulfilled(r.value)]
        ELSE Caught(c, r.error)

InitCalls ==
    /\ apiKey \in BOOLEAN
    /\ engineQuotesInput \in BOOLEAN
    /\ imageDataUrl = <<>>
    /\ pc = "idle"
    /\ attempt = 0
    /\ lastError = NoError
    /\ requests = <<>>
    /\ waits = <<>>
    /\ log = <<>>
    /\ response = NoResponse
    /\ outcome = Pending
    /\ \E image \in Images : pool = [i \in Calls |-> IdleCall(image)]
    /\ relay = NoRelay
    /\ admin = NoAdmin
    /\ auth = NoAuth

\* What the calls of the pool leave alone.
poolFrame == <<apiKey, engineQuotesInput, imageDataUrl, pc, attempt, lastError,
               requests, waits, log, response, outcome, relay, admin, auth>>

CallInvoke(i) ==
    /\ pool[i].pc = "idle"
    /\ pool' = [pool EXCEPT ![i] =
                   Invoked([pool[i] EXCEPT !.after = {j \in Calls : pool[j].pc = "done"}],
                           apiKey)]
    /\ UNCHANGED poolFrame

CallMockTimerFires(i) ==
    /\ pool[i].pc = "mock"
    /\ \E r \in PoolDraws :
         pool' = [pool EXCEPT ![i] =
                     [pool[i] EXCEPT
                         !.pc = "done",
                         !.draw = r,
                         !.outcome = Fulfilled(MockResult(r))]]
    /\ UNCHANGED poolFrame

CallSleepEnds(i) ==
    /\ pool[i].pc = "sleep"
    /\ SleepResolves(pool[i].waits[Len(pool[i].waits)])
    /\ pool' = [pool EXCEPT ![i] =
                   [pool[i] EXCEPT !.pc = "fetch", !.requests = Append(@, pool[i].image)]]
    /\ UNCHANGED poolFrame

CallFetchRejects(i) ==
    /\ pool[i].pc = "fetch"
    /\ \E m \in PoolFaults :
         pool' = [pool EXCEPT ![i] =
                     Caught([LocalsOf(pool, i) EXCEPT
                                 !.answers = Append(@, FaultAnswer(m)),
                                 !.response = NoResponse],
                            [name |-> "TypeError", message |-> m])]
    /\ UNCHANGED poolFrame

CallFetchResponds(i) ==
    /\ pool[i].pc = "fetch"
    /\ \E resp \in PoolResponses :
         pool' = [pool EXCEPT ![i] =
                     [pool[i] EXCEPT !.pc = "json",
                                     !.answers = Append(@, ResponseAnswer(resp)),
                                     !.response = resp]]
    /\ UNCHANGED poolFrame

CallBodySettles(i) ==
    /\ pool[i].pc = "json"
    /\ pool' = [pool EXCEPT ![i] = BodySettled(LocalsOf(pool, i), engineQuotesInput)]
    /\ UNCHANGED poolFrame

\* The caller abandons call i, which waits in backoff.
CallAbandoned(i) ==
    /\ pool[i].pc = "sleep"
    /\ pool[i].abandonedAt < 0
    /\ pool' = [pool EXCEPT ![i] = [pool[i] EXCEPT !.abandonedAt = Len(pool[i].requests)]]
    /\ UNCHANGED poolFrame

\* A step of call i that is the environment's to take: a timer, the transport.
CallProgress(i) ==
    \/ CallMockTimerFires(i)
    \/ CallSleepEnds(i)
    \/ CallFetchRejects(i)
    \/ CallFetchResponds(i)
    \/ CallBodySettles(i)

NextCalls ==
    \E i \in Calls :
        \/ CallInvoke(i)
        \/ CallProgress(i)

SpecCalls == InitCalls /\ [][NextCalls]_vars

\* Timers fire and the transport answers, or fails, every request.
FairCalls == SpecCalls /\ \A i \in Calls : WF_vars(CallProgress(i))

\* The calls of a caller that may abandon them.
NextAbandon ==
    \E i \in Calls :
        \/ CallInvoke(i)
        \/ CallProgress(i)
        \/ CallAbandoned(i)

SpecAbandon == InitCalls /\ [][NextAbandon]_vars

\* ---------------------------------------------------------------------------
\* Claims about the calls of the pool.

IsPrefix(s, t) == Len(s) <= Len(t) /\ SubSeq(t, 1, Len(s)) = s

\* Calls i and j were given the same input and, as far as each asked, the
\* same answers by the transport.
SameStub(i, j) ==
    /\ pool[i].image = pool[j].image
    /\ IsPrefix(pool[i].answers, pool[j].answers)
         \/ IsPrefix(pool[j].answers, pool[i].answers)

\* Call j was made when call i had settled, and has settled too.
Repeats(i, j) ==
    /\ i # j
    /\ i \in pool[j].after
    /\ pool[j].pc = "done"

\* Calls i and j have both settled, and each was made before the other settled.
Overlapped(i, j) ==
    /\ i # j
    /\ pool[i].pc = "done"
    /\ pool[j].pc = "done"
    /\ i \notin pool[j].after
    /\ j \notin pool[i].after

\* C13 as stated: a call repeated with the same input against the same stub
\* settles as the earlier call did, with the same result or the same error.
C13_RepeatedCallsAgree ==
    \A i, j \in Calls :
        (Repeats(i, j) /\ SameStub(i, j)) => pool[j].outcome = pool[i].outcome

\* C13 amended: with an API key configured, a call repeated with the same
\* input against the same stub settles as the earlier call did.
C13_RepeatedCallsAgreeWithKey ==
    apiKey =>
        \A i, j \in Calls :
            (Repeats(i, j) /\ SameStub(i, j)) =>
                /\ pool[j].outcome = pool[i].outcome
                /\ pool[j].requests = pool[i].requests

C13_Witness ==
    /\ apiKey
    /\ \E i, j \in Calls :
         /\ Repeats(i, j)
         /\ pool[i].answers = pool[j].answers
         /\ Len(pool[j].answers) = MAX_RETRIES
         /\ pool[j].outcome.state = "fulfilled"

\* C14: once a call waiting in backoff is abandoned, it sends no further
\* request and its backoff timer is no longer pending.
C14_AbandonedStopsScheduling ==
    \A i \in Calls :
        pool[i].abandonedAt >= 0 =>
            /\ Len(pool[i].requests) = pool[i].abandonedAt
            /\ pool[i].pc # "sleep"

\* C15: under every interleaving, two calls given the same input, the same
\* answers and the same mock draw make the same number of requests, wait the
\* same delays and settle alike, whatever the other did meanwhile.
C15_CallsAreIndependent ==
    \A i, j \in Calls :
        (/\ i # j
         /\ pool[i].pc = "done"
         /\ pool[j].pc = "done"
         /\ SameStub(i, j)
         /\ pool[i].draw = pool[j].draw) =>
            /\ Len(pool[i].requests) = Len(pool[j].requests)
            /\ pool[i].waits = pool[j].waits
            /\ pool[i].outcome = pool[j].outcome

C15_Witness ==
    /\ apiKey
    /\ \E i, j \in Calls :
         /\ Overlapped(i, j)
         /\ pool[i].answers = pool[j].answers
         /\ pool[i].waits = <<BackoffDelay(1), BackoffDelay(2)>>
         /\ pool[i].outcome.state = "rejected"

\* The terminal states of a call.
Succeeded(c) == c.pc = "done" /\ c.outcome.state = "fulfilled"
FailedTerminal(c) ==
    /\ c.pc = "done"
    /\ c.outcome.state = "rejected"
    /\ NotRetried(c.outcome.error)
FailedExhaustedRetries(c) ==
    /\ c.pc = "done"
    /\ c.outcome.state = "rejected"
    /\ c.outcome.error = ExhaustedError(c.lastError)
    /\ Len(c.requests) = MAX_RETRIES

ExactlyOneTerminal(c) ==
    /\ Succeeded(c) \/ FailedTerminal(c) \/ FailedExhaustedRetries(c)
    /\ ~(Succeeded(c) /\ FailedTerminal(c))
    /\ ~(Succeeded(c) /\ FailedExhaustedRetries(c))
    /\ ~(FailedTerminal(c) /\ FailedExhaustedRetries(c))

\* C16: when timers fire and the transport answers or fails every request,
\* every call made settles, in exactly one of Succeeded, Failed(Terminal) and
\* Failed(ExhaustedRetries), and stays as it settled.
C16_EveryCallSettles ==
    /\ \A i \in Calls : (pool[i].pc # "idle") ~> (pool[i].pc = "done")
    /\ [](\A i \in Calls : pool[i].pc = "done" => ExactlyOneTerminal(pool[i]))
    /\ [][\A i \in Calls : pool[i].pc = "done" => pool'[i] = pool[i]]_vars

C16_Witness ==
    \E i \in Calls :
        /\ FailedExhaustedRetries(pool[i])
        /\ pool[i].waits = <<BackoffDelay(1), BackoffDelay(2)>>
        /\ \E j \in Calls : Succeeded(pool[j]) /\ Len(pool[j].requests) = 2

(***************************************************************************)
(* The relay endpoint: the handler given to Deno.serve, in its three       *)
(* revisions, handling one request.                                        *)
(***************************************************************************)
Revisions == {1, 2, 3}

\* f with the entries of g added: { ...f, ...g }
Spread(f, g) == [k \in DOMAIN f \cup DOMAIN g |-> IF k \in DOMAIN g THEN g[k] ELSE f[k]]

corsHeaders ==
    [k \in {"Access-Control-Allow-Origin", "Access-Control-Allow-Headers"} |->
        IF k = "Access-Control-Allow-Origin" THEN "*"
        ELSE "authorization, x-client-info, apikey, content-type"]
JsonHeaders == [k \in {"Content-Type"} |-> "application/json"]

\* The environment of the function: a variable is unset (undefined) or a string.
EnvValues == { Undefined, Str(<<"gsk_A">>), Str(<<"gsk_B">>) }
Environments == [GROQ_API_KEY : EnvValues, VITE_GROQ_API_KEY : {Undefined, Str(<<"gsk_B">>)}]

\* The variables the handler reads for its credential, in order, and the
\* credential it ends with.
CredentialNames(revision, env) ==
    IF revision = 3 /\ ~Truthy(env.GROQ_API_KEY)
    THEN {"GROQ_API_KEY", "VITE_GROQ_API_KEY"}
    ELSE {"GROQ_API_KEY"}
Credential(revision, env) ==
    IF revision = 3 THEN OrElse(env.GROQ_API_KEY, env.VITE_GROQ_API_KEY)
    ELSE env.GROQ_API_KEY

Methods == {"OPTIONS", "POST", "GET"}

\* A string as JSON.stringify writes it: a quote mark inside it is escaped.
Escaped(s) == [i \in 1..Len(s) |-> IF s[i] = Quote THEN "\\'" ELSE s[i]]
StringText(s) ==
    IF Len(s) = 1 /\ IsWord(s[1]) THEN s ELSE QuotedText(Escaped(s))

\* The request bodies sent to the relay.
RequestBodies ==
    { ObjectText(<< <<"imageDataUrl", <<"data:image/jpeg;base64,AAAA">> >> >>),
      ObjectText(<< <<"imageDataUrl", QuotedText(<<>>)>> >>),
      ObjectText(<< <<"imageDataUrl", <<"null">> >> >>),
      ObjectText(<< <<"image", <<"data:image/jpeg;base64,AAAA">> >> >>),
      ObjectText(<< <<"imageDataUrl", <<"data:image/jpeg;base64,AAAA">> >>,
                    <<"apiKey", <<"gsk_C">> >> >>),
      <<"null">>,
      <<"{", "imageDataUrl", ":">>,
      <<>> }

\* The answers of the upstream API to the relay.
RelayContents ==
    { ValuationText("Projector", "450", << [name |-> "Cart", estimatedValue |-> "80", confidence |-> "0.7"] >>),
      ValuationTextNoOthers("Desk", "120") }
    \cup IncompleteContents \cup ProseContents
RelayBodies ==
    { CompletionBody(c) : c \in RelayContents }
    \cup { CompletionBodyNullContent, <<"{", "}">>, <<"null">> }
    \cup { ErrorBody(m) : m \in UpstreamMessages }
    \cup TextBodies
RelayStatuses == {200, 400, 503}
RelayResponses ==
    { [status |-> st, statusText |-> ReasonPhrase(st), body |-> b] :
        st \in RelayStatuses, b \in RelayBodies }
    \cup { [status |-> 503, statusText |-> <<>>, body |-> b] : b \in {<<"{", "}">>, <<>>} }

RECURSIVE SeqOf(_)
\* The elements of a set one after the other.
SeqOf(S) ==
    IF S = {} THEN <<>>
    ELSE LET x == CHOOSE y \in S : TRUE IN <<x>> \o SeqOf(S \ {x})

RECURSIVE Stringify(_)
\* JSON.stringify(v) of a value that is not undefined: a property whose value
\* is undefined is left out, an element that is undefined is written null.
Stringify(v) ==
    CASE v.js = "null" -> <<"null">>
      [] v.js = "number" -> <<CHOOSE l \in Numerals : NumeralValue[l] = v.n>>
      [] v.js = "string" -> StringText(v.s)
      [] v.js = "array" ->
            ArrayText([i \in 1..Len(v.items) |->
                          IF v.items[i].js = "undefined" THEN <<"null">>
                          ELSE Stringify(v.items[i])])
      [] v.js = "object" ->
            LET keys == SeqOf({k \in DOMAIN v.props : v.props[k].js # "undefined"})
            IN  ObjectText([i \in 1..Len(keys) |-> <<keys[i], Stringify(v.props[keys[i]])>>])
      [] OTHER -> <<>>

\* The responses of the handler.  body is null or a string.
NoAnswer == [status |-> 0, headers |-> [k \in {} |-> ""], body |-> Null]
\* new Response(null, { headers: corsHeaders })
PreflightResponse == [status |-> 200, headers |-> corsHeaders, body |-> Null]
\* new Response(JSON.stringify(result), { headers: { ...corsHeaders, 'Content-Type': ... } })
SuccessResponse(result) ==
    [status |-> 200, headers |-> Spread(corsHeaders, JsonHeaders),
     body |-> Str(Stringify(Obj(result)))]

\* error.stack of an Error object: its name, its message and the frames.
StackOf(error) == <<error.name, ":">> \o error.message \o <<"at", "handler">>

\* The object the catch block writes into its response.
FailureBody(revision, error) ==
    LET message == OrElse(Str(error.message), Str(<<"Internal", "server", "error">>))
    IN  IF revision = 3
        THEN [error |-> message,
              details |-> OrElse(Str(StackOf(error)),
                                 Str(<<"No", "stack", "trace", "available">>))]
        ELSE [error |-> message]

\* A faulty catch block: the CORS headers are left out of its response.
FailureHeadersBare == JsonHeaders

\* { ...corsHeaders, 'Content-Type': 'application/json' }
FailureHeaders == Spread(corsHeaders, JsonHeaders)

FailureResponse(revision, error) ==
    [status |-> 500, headers |-> FailureHeaders,
     body |-> Str(Stringify(Obj(FailureBody(revision, error))))]

\* A request as it arrives.  envReads: the environment variables read;
\* bodyRead: whether req.json() was called; upstream: the requests sent to the
\* upstream API; fault: whether the upstream call failed, and faultMessage:
\* with what message.
ArrivedRequest(revision, env, method, body) ==
    [pc |-> "received", revision |-> revision, env |-> env, method |-> method,
     body |-> body, envReads |-> {}, bodyRead |-> FALSE, upstream |-> <<>>,
     upstreamResponse |-> NoResponse, fault |-> FALSE, faultMessage |-> <<>>,
     answer |-> NoAnswer]

\* A faulty catch block: a failure of the upstream call is answered by sending
\* the request once more.
FailedRetried(r, error) ==
    IF r.pc \in {"fetch", "read"} /\ Len(r.upstream) < 2
    THEN [r EXCEPT !.pc = "fetch", !.upstream = Append(@, r.upstream[1])]
    ELSE [r EXCEPT !.pc = "done", !.answer = FailureResponse(r.revision, error)]

\* A faulty catch block: the credential is written into the error it reports.
FailedLeaking(r, error) ==
    [r EXCEPT !.pc = "done",
              !.answer = FailureResponse(r.revision,
                             [error EXCEPT !.message =
                                 @ \o ToStr(OrElse(Credential(r.revision, r.env),
                                                   Str(<<>>)))])]

\* The catch block: the response of a failed request.
Failed(r, error) ==
    [r EXCEPT !.pc = "done", !.answer = FailureResponse(r.revision, error)]

Succeeded200(r, result) == [r EXCEPT !.pc = "done", !.answer = SuccessResponse(result)]

\* A faulty handler: no request is taken for a preflight.
NeverPreflight(method) == FALSE

\* req.method === 'OPTIONS'
IsPreflight(method) == method = "OPTIONS"

MissingCredentialError(revision) ==
    Error((IF revision = 3 THEN <<"GROQ_API_KEY", "or", "VITE_GROQ_API_KEY">>
           ELSE <<"GROQ_API_KEY">>)
          \o <<"environment", "variable", "is", "not", "set">>)
InvalidRequestError == Error(<<"Invalid", "JSON", "in", "request", "body">>)
MissingImageError == Error(<<"Missing", "imageDataUrl", "in", "request", "body">>)
DestructureError ==
    [name |-> "TypeError",
     message |-> <<"Cannot", "destructure", "property", "imageDataUrl">>]

\* A faulty handler: the body is read before the credential is looked for.
ServedBodyFirst(r) ==
    IF IsPreflight(r.method)
    THEN [r EXCEPT !.pc = "done", !.answer = PreflightResponse]
    ELSE [r EXCEPT !.pc = "body", !.bodyRead = TRUE]

\* The handler from the arrival of the request to its first await.
Served(r) ==
    IF IsPreflight(r.method)
    THEN [r EXCEPT !.pc = "done", !.answer = PreflightResponse]
    ELSE LET read == [r EXCEPT !.envReads = CredentialNames(r.revision, r.env)]
         IN  IF ~Truthy(Credential(r.revision, r.env))
             THEN Failed(read, MissingCredentialError(r.revision))
             ELSE [read EXCEPT !.pc = "body", !.bodyRead = TRUE]

\* The request sent to the upstream API.
UpstreamRequest(credential, image) ==
    [authorization |-> <<"Bearer">> \o ToStr(credential), url |-> image]

\* The handler from the settling of req.json() to the upstream call.
BodyRead(r, quotes) ==
    LET json == ResponseJson(r.body, quotes)
    IN  IF json.threw
        THEN Failed(r, IF r.revision = 3 THEN InvalidRequestError ELSE json.error)
        ELSE LET image == Get(json.val, "imageDataUrl")
             IN  IF image.threw THEN Failed(r, DestructureError)
                 ELSE IF ~Truthy(image.val) THEN Failed(r, MissingImageError)
                 ELSE [r EXCEPT
                          !.pc = "fetch",
                          !.upstream =
                              Append(@, UpstreamRequest(Credential(r.revision, r.env),
                                                        image.val))]

\* The error of an upstream response that is not ok.
RelayNotOkError(revision, resp, errorData) ==
    LET e == Get(errorData, "error")
    IN  IF e.threw THEN TypeError
        ELSE LET m == GetOptional(e.val, "message").val
                 text == ToStr(OrElse(m, Str(resp.statusText)))
             IN  IF revision = 2
                 THEN Error(<<"Groq", "API", "error", ":">> \o text)
                 ELSE Error(<<"Groq", "API", "error", "(", ToString(resp.status), ")", ":">>
                                \o text)

\* A faulty result: the value is read from the content itself, not from its
\* mainItem.
RelayResultOfFlat(parsedContent) ==
    LET mainItem == Get(parsedContent, "mainItem")
    IN  IF mainItem.threw \/ Get(mainItem.val, "name").threw THEN Throw(TypeError)
        ELSE Return([itemName |-> Get(mainItem.val, "name").val,
                     estimatedValue |-> Get(parsedContent, "estimatedValue").val,
                     detectedObjects |->
                         OrElse(Get(parsedContent, "otherObjects").val, EmptyArray)])

\* The object the handler answers with for the parsed content.
RelayResultOf(parsedContent) ==
    LET mainItem == Get(parsedContent, "mainItem")
    IN  IF mainItem.threw \/ Get(mainItem.val, "name").threw THEN Throw(TypeError)
        ELSE Return([itemName |-> Get(mainItem.val, "name").val,
                     estimatedValue |-> Get(mainItem.val, "estimatedValue").val,
                     detectedObjects |->
                         OrElse(Get(parsedContent, "otherObjects").val, EmptyArray)])

\* The try block from the upstream response on.
RelayFromResponse(revision, resp, quotes) ==
    IF ~Ok(resp.status)
    THEN IF revision = 2
         THEN LET json == ResponseJson(resp.body, quotes)
              IN  IF json.threw THEN Throw(json.error)
                  ELSE Throw(RelayNotOkError(revision, resp, json.val))
         ELSE LET parsed == JSONParseText(resp.body)
                  errorData ==
                      IF parsed.ok THEN parsed.val
                      ELSE Obj([error |-> Obj([message |-> Str(resp.body)])])
              IN  Throw(RelayNotOkError(revision, resp, errorData))
    ELSE LET json == ResponseJson(resp.body, quotes)
         IN  IF json.threw THEN Throw(json.error)
             ELSE LET content == GetPath(json.val, <<"choices", "0", "message", "content">>)
                  IN  IF content.threw THEN Throw(TypeError)
                      ELSE LET parsed == JSONParse(content.val)
                           IN  IF ~parsed.ok THEN Throw(InvalidFormatError)
                               ELSE RelayResultOf(parsed.val)

\* The handler when the upstream call rejects with message m.
UpstreamRejected(r, m) ==
    Failed([r EXCEPT !.fault = TRUE, !.faultMessage = m],
           [name |-> "TypeError", message |-> m])

\* The handler when the upstream call resolves with resp.
UpstreamResponded(r, resp) ==
    [r EXCEPT !.pc = "read", !.fault = FALSE, !.upstreamResponse = resp]

\* What the try block makes of each upstream response.
RelayReadings ==
    [revision \in Revisions |-> [resp \in RelayResponses |-> [quotes \in BOOLEAN |->
        RelayFromResponse(revision, resp, quotes)]]]

\* The handler from the settling of the upstream body to its response.
BodySettledAtRelay(r, quotes) ==
    LET end == RelayReadings[r.revision][r.upstreamResponse][quotes]
    IN  IF end.kind = "return" THEN Succeeded200(r, end.value) ELSE Failed(r, end.error)

InitRelay ==
    /\ apiKey = FALSE
    /\ engineQuotesInput \in BOOLEAN
    /\ imageDataUrl = <<>>
    /\ pc = "idle"
    /\ attempt = 0
    /\ lastError = NoError
    /\ requests = <<>>
    /\ waits = <<>>
    /\ log = <<>>
    /\ response = NoResponse
    /\ outcome = Pending
    /\ pool = NoPool
    /\ admin = NoAdmin
    /\ auth = NoAuth
    /\ \E revision \in Revisions, env \in Environments,
          method \in Methods, body \in RequestBodies :
         relay = ArrivedRequest(revision, env, method, body)

\* What the relay leaves alone.
relayFrame == <<apiKey, engineQuotesInput, imageDataUrl, pc, attempt, lastError,
                requests, waits, log, response, outcome, pool, admin, auth>>

\* The handler is called with the request.
RelayServes ==
    /\ relay.pc = "received"
    /\ relay' = Served(relay)
    /\ UNCHANGED relayFrame

\* req.json() settles.
RelayBodyRead ==
    /\ relay.pc = "body"
    /\ relay' = BodyRead(relay, engineQuotesInput)
    /\ UNCHANGED relayFrame

\* The upstream call fails.
RelayFetchRejects ==
    /\ relay.pc = "fetch"
    /\ \E m \in FaultMessages :
         relay' = UpstreamRejected(relay, m)
    /\ UNCHANGED relayFrame

\* The upstream API answers.
RelayFetchResponds ==
    /\ relay.pc = "fetch"
    /\ \E resp \in RelayResponses :
         relay' = UpstreamResponded(relay, resp)
    /\ UNCHANGED relayFrame

\* The body of the upstream response is read.
RelayBodySettles ==
    /\ relay.pc = "read"
    /\ relay' = BodySettledAtRelay(relay, engineQuotesInput)
    /\ UNCHANGED relayFrame

NextRelay ==
    \/ RelayServes
    \/ RelayBodyRead
    \/ RelayFetchRejects
    \/ RelayFetchResponds
    \/ RelayBodySettles

SpecRelay == InitRelay /\ [][NextRelay]_vars

\* ---------------------------------------------------------------------------
\* Claims about the relay.

Answered == relay.pc = "done"
\* The body of the answer as its reader parses it.
AnswerJson == IF relay.answer.body.js = "string" THEN JSONParseText(relay.answer.body.s)
              ELSE [ok |-> FALSE, val |-> Undefined]
HasCors(headers) ==
    \A k \in DOMAIN corsHeaders : k \in DOMAIN headers /\ headers[k] = corsHeaders[k]

\* C17: an OPTIONS request is answered at once with status 200, no body and
\* the CORS headers; no environment variable is read, the request body is not
\* read and nothing is sent upstream.
C17_PreflightIsAnsweredAtOnce ==
    relay.method = "OPTIONS" =>
        /\ relay.pc \in {"received", "done"}
        /\ relay.envReads = {}
        /\ ~relay.bodyRead
        /\ relay.upstream = <<>>
        /\ Answered =>
              /\ relay.answer.status = 200
              /\ relay.answer.body = Null
              /\ HasCors(relay.answer.headers)

C17_Witness ==
    /\ relay.method = "OPTIONS"
    /\ Answered
    /\ ~Truthy(Credential(relay.revision, relay.env))
    /\ ~JSONParseText(relay.body).ok

\* The answer is a 500 whose body is a JSON object with a string field error.
IsErrorAnswer ==
    /\ relay.answer.status = 500
    /\ AnswerJson.ok
    /\ AnswerJson.val.js = "object"
    /\ "error" \in DOMAIN AnswerJson.val.props
    /\ AnswerJson.val.props["error"].js = "string"
    /\ AnswerJson.val.props["error"].s # <<>>

\* Nothing failed while the request was handled: the credential is there, the
\* request body is JSON with an imageDataUrl, the upstream answered with
\* success, and its content is JSON whose mainItem can be read.
NothingFailed ==
    /\ Truthy(Credential(relay.revision, relay.env))
    /\ JSONParseText(relay.body).ok
    /\ ~Get(JSONParseText(relay.body).val, "imageDataUrl").threw
    /\ Truthy(Get(JSONParseText(relay.body).val, "imageDataUrl").val)
    /\ Len(relay.upstream) = 1
    /\ ~relay.fault
    /\ Ok(relay.upstreamResponse.status)
    /\ LET data == JSONParseText(relay.upstreamResponse.body)
           content == GetPath(data.val, <<"choices", "0", "message", "content">>)
       IN  /\ data.ok
           /\ ~content.threw
           /\ JSONParse(content.val).ok
           /\ ~GetPath(JSONParse(content.val).val, <<"mainItem", "name">>).threw

\* C18: a request other than OPTIONS is always answered; whenever anything
\* failed the answer is a 500 with a JSON body whose field error is a string,
\* and it carries the CORS headers.
C18_FailuresAreAnswered500 ==
    (relay.method # "OPTIONS" /\ Answered) =>
        /\ relay.answer # NoAnswer
        /\ relay.answer.status \in {200, 500}
        /\ HasCors(relay.answer.headers)
        /\ ~NothingFailed => IsErrorAnswer
        /\ relay.answer.status = 500 => IsErrorAnswer

C18_Witness ==
    /\ relay.method = "POST"
    /\ Answered
    /\ relay.upstreamResponse.status = 503
    /\ ~JSONParseText(relay.upstreamResponse.body).ok
    /\ IsErrorAnswer

\* The request is a POST whose body is JSON carrying imageDataUrl.
CarriesImage ==
    /\ relay.method = "POST"
    /\ JSONParseText(relay.body).ok
    /\ JSONParseText(relay.body).val.js = "object"
    /\ "imageDataUrl" \in DOMAIN JSONParseText(relay.body).val.props

\* C19: a POST carrying imageDataUrl is answered either 200 with a JSON body
\* of exactly the fields itemName, estimatedValue and detectedObjects, or 500
\* with a JSON body of exactly the string field error.
C19_OnlyTwoShapes ==
    (CarriesImage /\ Answered) =>
        /\ AnswerJson.ok
        /\ AnswerJson.val.js = "object"
        /\ \/ /\ relay.answer.status = 200
              /\ DOMAIN AnswerJson.val.props =
                     {"itemName", "estimatedValue", "detectedObjects"}
           \/ /\ relay.answer.status = 500
              /\ DOMAIN AnswerJson.val.props = {"error"}
              /\ AnswerJson.val.props["error"].js = "string"

\* C20: at most one request is sent upstream for a request handled, whatever
\* the upstream answers.
C20_NoRetry ==
    /\ Len(relay.upstream) <= 1
    /\ Answered /\ (relay.fault \/ relay.upstreamResponse # NoResponse)
           => Len(relay.upstream) = 1

C20_Witness ==
    /\ Answered
    /\ relay.upstreamResponse.status = 503
    /\ Len(relay.upstream) = 1
    /\ relay.answer.status = 500

\* The run of the handler on the request of r in the environment env, given
\* what the upstream gave r, as far as r has got.
Rerun(r, env, quotes) ==
    LET arrived == ArrivedRequest(r.revision, env, r.method, r.body)
        served == Served(arrived)
        read == IF served.pc = "body" THEN BodyRead(served, quotes) ELSE served
    IN  IF r.pc = "received" THEN arrived
        ELSE IF r.pc = "body" THEN served
        ELSE IF read.pc # "fetch" THEN read
        ELSE IF r.fault THEN UpstreamRejected(read, r.faultMessage)
        ELSE IF r.upstreamResponse = NoResponse THEN read
        ELSE IF r.pc = "read" THEN UpstreamResponded(read, r.upstreamResponse)
        ELSE BodySettledAtRelay(UpstreamResponded(read, r.upstreamResponse), quotes)

\* The environments that differ from env in the value of the credential only,
\* a non-empty one in both.
OtherCredentials(revision, env) ==
    { e \in Environments :
        /\ Truthy(Credential(revision, env))
        /\ Truthy(Credential(revision, e))
        /\ Credential(revision, e) # Credential(revision, env) }

\* C21: the credential sent upstream is the one of the environment, whatever
\* the request carries, and a run with another non-empty credential, the same
\* request and the same upstream answers returns the same response.
C21_CredentialStaysInside ==
    /\ \A i \in 1..Len(relay.upstream) :
          relay.upstream[i].authorization =
              <<"Bearer">> \o Credential(relay.revision, relay.env).s
    /\ \A e \in OtherCredentials(relay.revision, relay.env) :
          /\ Rerun(relay, e, engineQuotesInput).pc = relay.pc
          /\ Rerun(relay, e, engineQuotesInput).answer = relay.answer

C21_Witness ==
    /\ Answered
    /\ relay.answer.status = 500
    /\ relay.upstreamResponse.status = 400
    /\ "apiKey" \in DOMAIN JSONParseText(relay.body).val.props
    /\ OtherCredentials(relay.revision, relay.env) # {}

\* What the client's attempt makes of the upstream response the relay got.
ClientAttempt == FromResponse(relay.upstreamResponse, engineQuotesInput)

\* The field of the relay's answer as its reader finds it.
AnswerField(key) == Get(AnswerJson.val, key).val

\* C22: given the same upstream response, the relay answers 200 exactly when
\* the client's attempt returns a result, with the same itemName,
\* estimatedValue and detectedObjects, and answers with a failure exactly when
\* the client's attempt throws; both fail when the upstream call fails.
C22_RelayMatchesClient ==
    /\ (Answered /\ relay.upstreamResponse # NoResponse) =>
          /\ relay.answer.status = 200 <=> ClientAttempt.kind = "return"
          /\ relay.answer.status = 500 <=> ClientAttempt.kind = "throw"
          /\ relay.answer.status = 200 =>
                /\ AnswerJson.ok
                /\ AnswerField("itemName") = ClientAttempt.value.itemName
                /\ AnswerField("estimatedValue") = ClientAttempt.value.estimatedValue
                /\ AnswerField("detectedObjects") = ClientAttempt.value.detectedObjects
    /\ (Answered /\ relay.fault) => relay.answer.status = 500

C22_Witness ==
    /\ Answered
    /\ relay.answer.status = 200
    /\ ClientAttempt.kind = "return"
    /\ ClientAttempt.value.estimatedValue = Num(45000)
    /\ Len(ClientAttempt.value.detectedObjects.items) = 1

\* ---------------------------------------------------------------------------
\* Further claims about the single call.

\* C23: a response with a status of 500 or more is retried while attempts
\* remain, whatever its body: the call does not end on it.
C23_ServerErrorIsRetried ==
    (Handled /\ IsServerError(LastStatus) /\ Len(log) < MAX_RETRIES) =>
        /\ pc # "done"
        /\ Len(waits) = Len(log)

\* C24: the call never ends with the error of the statement after the loop.
C24_AfterLoopIsUnreachable ==
    /\ attempt < MAX_RETRIES
    /\ pc = "done" =>
          /\ outcome.state \in {"fulfilled", "rejected"}
          /\ outcome.state = "rejected" => outcome.error # UnexpectedError
    /\ pc \in {"sleep", "fetch", "json"} => outcome = Pending

C24_Witness ==
    /\ pc = "done"
    /\ attempt = MAX_RETRIES - 1
    /\ Len(log) = MAX_RETRIES
    /\ outcome.state = "rejected"
    /\ outcome.error = ExhaustedError(lastError)

\* C26: with no API key the call sends nothing and never fails: it sets one
\* timer of 1000 ms and then resolves with the mocked name, a whole value
\* from 50 to 1049 and no detected objects, whatever the input.
C26_MockPath ==
    ~apiKey =>
        /\ calls = 0
        /\ log = <<>>
        /\ pc \in {"idle", "mock", "done"}
        /\ outcome.state # "rejected"
        /\ pc = "idle" => waits = <<>>
        /\ pc \in {"mock", "done"} => waits = <<MOCK_DELAY>>
        /\ pc = "mock" => outcome = Pending
        /\ pc = "done" =>
              /\ outcome.state = "fulfilled"
              /\ outcome.value.itemName = Str(<<"Sample", "Item", "(Mocked)">>)
              /\ outcome.value.estimatedValue.js = "number"
              /\ outcome.value.estimatedValue.n % 100 = 0
              /\ outcome.value.estimatedValue.n >= 50 * 100
              /\ outcome.value.estimatedValue.n <= 1049 * 100
              /\ outcome.value.detectedObjects = EmptyArray

C26_Witness ==
    /\ ~apiKey
    /\ imageDataUrl = <<>>
    /\ pc = "done"
    /\ outcome.value.estimatedValue = Num(1049 * 100)

\* ---------------------------------------------------------------------------
\* Further claims about the relay.

\* The imageDataUrl of the request body, undefined when it cannot be read.
RequestImage ==
    LET json == JSONParseText(relay.body)
    IN  IF json.ok /\ ~Get(json.val, "imageDataUrl").threw
        THEN Get(json.val, "imageDataUrl").val
        ELSE Undefined
HasCredential == Truthy(Credential(relay.revision, relay.env))

\* C27: the body is read only once the credential was found, and a request is
\* sent upstream only once the body gave a non-empty imageDataUrl.  Without
\* the credential the answer is 500 with the credential error and the body is
\* not read; without imageDataUrl the answer is 500 and nothing is sent.
C27_ChecksComeFirst ==
    /\ relay.bodyRead => (relay.envReads # {} /\ HasCredential)
    /\ relay.upstream # <<>> =>
          (relay.bodyRead /\ HasCredential /\ Truthy(RequestImage))
    /\ (relay.method # "OPTIONS" /\ Answered /\ ~HasCredential) =>
          /\ IsErrorAnswer
          /\ AnswerField("error") = Str(MissingCredentialError(relay.revision).message)
          /\ ~relay.bodyRead
          /\ relay.upstream = <<>>
    /\ (relay.method # "OPTIONS" /\ Answered /\ ~Truthy(RequestImage)) =>
          /\ IsErrorAnswer
          /\ relay.upstream = <<>>
          /\ ~relay.fault /\ relay.upstreamResponse = NoResponse

C27_Witness ==
    /\ relay.method = "POST"
    /\ Answered
    /\ HasCredential
    /\ relay.bodyRead
    /\ JSONParseText(relay.body).ok
    /\ ~Truthy(RequestImage)
    /\ AnswerField("error") = Str(MissingImageError.message)

(***************************************************************************)
(* AdminPage: the scanner of a school's administrator.  A captured image   *)
(* is a number from 1 on, 0 standing for null; an item is named by the     *)
(* image whose inference returned it and by its place in that result (0:   *)
(* the main item), which stand for its name and its estimated value.       *)
(***************************************************************************)
MaxCaptures == 2
MaxInserts == 2
MaxQuantity == 2
MaxDetected == 1

NoImage == 0
NoResult == [image |-> 0, object |-> 0]
Item(image, k) == [image |-> image, object |-> k]

\* The access keys of the route, "" when the route has none, and the school
\* each resolves to, "" when there is none.
AccessKeys == {"", "key-A", "key-B", "stale-key"}
SchoolOf(key) ==
    CASE key = "key-A" -> "school-A"
      [] key = "key-B" -> "school-B"
      [] OTHER -> ""

\* The page as it mounts.  inferring: the images of the inference calls in
\* flight; saving: the rows of the inserts in flight; inserts: every row sent
\* for insertion; saved: the rows the database took; last: the handler that
\* ran last.
MountedAdmin(key) ==
    [page |-> "admin", key |-> key, school |-> "", isValidKey |-> "null",
     loadingSchool |-> TRUE, itemsLoading |-> FALSE,
     capturedImage |-> NoImage, inferenceResult |-> NoResult, quantity |-> 1,
     isInferring |-> FALSE, isSaving |-> FALSE, scanned |-> 0,
     showSummary |-> FALSE, detectedObjects |-> <<>>, selectedObjectIndex |-> 0,
     inferring |-> <<>>, saving |-> <<>>, inserts |-> <<>>, saved |-> 0,
     captures |-> 0, last |-> "mount"]

\* The scanner is on the screen: none of the early returns of the render.
ScannerShown(a) ==
    /\ ~a.loadingSchool
    /\ a.isValidKey # "false"
    /\ a.school # ""
    /\ ~a.showSummary

\* fetchSchool without a key in the route.
SchoolKeyMissing(a) ==
    [a EXCEPT !.isValidKey = "false", !.loadingSchool = FALSE, !.last = "school"]
\* fetchSchool when the query settles with the row data, "" for an error or
\* no row.
SchoolSettled(a, data) ==
    IF data = ""
    THEN [a EXCEPT !.isValidKey = "false", !.school = "", !.loadingSchool = FALSE,
                   !.last = "school"]
    ELSE [a EXCEPT !.isValidKey = "true", !.school = data, !.loadingSchool = FALSE,
                   !.itemsLoading = TRUE, !.last = "school"]

\* handleInference up to its await.
InferenceStarted(a, imageSrc) ==
    [a EXCEPT !.isInferring = TRUE, !.inferring = Append(@, imageSrc)]

\* capture, with the screenshot the webcam gave (NoImage: none yet).
Captured(a, imageSrc) ==
    LET b == [a EXCEPT !.capturedImage = imageSrc, !.inferenceResult = NoResult,
                       !.quantity = 1, !.last = "capture",
                       !.captures = IF imageSrc = NoImage THEN @ ELSE @ + 1]
    IN  IF imageSrc # NoImage THEN InferenceStarted(b, imageSrc) ELSE b

\* A faulty finally block: isInferring is left as it is.
InferenceFinishedStillInferring(a) == a

\* The finally block of handleInference.
InferenceFinished(a) == [a EXCEPT !.isInferring = FALSE]

\* A faulty catch block: the result on the screen is left as it is.
InferenceFailedKeepsResult(a) ==
    InferenceFinished([a EXCEPT !.inferring = Tail(@), !.detectedObjects = <<>>,
                                !.last = "inferenceFailed"])

\* handleInference when the call in flight rejects, or when its result cannot
\* be spread: the catch block, then finally.
InferenceFailed(a) ==
    InferenceFinished([a EXCEPT !.inferring = Tail(@), !.inferenceResult = NoResult,
                                !.detectedObjects = <<>>, !.last = "inferenceFailed"])

\* handleInference when the call in flight resolves with a main item and n
\* other objects.
InferenceSucceeded(a, n) ==
    LET image == Head(a.inferring)
    IN  InferenceFinished(
            [a EXCEPT !.inferring = Tail(@),
                      !.inferenceResult = Item(image, 0),
                      !.detectedObjects = [k \in 1..(n + 1) |-> Item(image, k - 1)],
                      !.selectedObjectIndex = 0,
                      !.last = "inferenceOk"])

\* handleObjectSelect(index)
ObjectSelected(a, index) ==
    [a EXCEPT !.selectedObjectIndex = index,
              !.inferenceResult = a.detectedObjects[index + 1],
              !.last = "select"]

\* The onClick of the Retake button.
Retaken(a) ==
    [a EXCEPT !.capturedImage = NoImage, !.inferenceResult = NoResult,
              !.detectedObjects = <<>>, !.last = "retake"]

\* handleNextItem
NextItem(a) ==
    [a EXCEPT !.capturedImage = NoImage, !.inferenceResult = NoResult,
              !.quantity = 1, !.isInferring = FALSE, !.isSaving = FALSE,
              !.last = "nextItem"]

\* The row handleSaveItem inserts.
NewItem(a) ==
    [name |-> a.inferenceResult, estimated_value |-> a.inferenceResult,
     quantity |-> a.quantity, image_url |-> a.capturedImage, school_id |-> a.school]

\* handleSaveItem up to its await.
SaveStarted(a) ==
    IF a.inferenceResult = NoResult \/ a.school = "" \/ a.capturedImage = NoImage
    THEN [a EXCEPT !.last = "save"]
    ELSE [a EXCEPT !.isSaving = TRUE, !.saving = Append(@, NewItem(a)),
                   !.inserts = Append(@, NewItem(a)), !.last = "save"]

\* handleSaveItem when the insert settles with the row: the list grows,
\* handleNextItem runs, then finally.
SaveSucceeded(a) ==
    [NextItem([a EXCEPT !.saving = Tail(@), !.saved = @ + 1, !.scanned = @ + 1])
        EXCEPT !.isSaving = FALSE, !.last = "saved"]

\* handleSaveItem when the insert settles with an error, or rejects.
SaveFailed(a) ==
    [a EXCEPT !.saving = Tail(@), !.isSaving = FALSE, !.last = "saveFailed"]

\* The detected items and the quantity buttons are on the screen.
DetectedShown(a) ==
    ScannerShown(a) /\ a.capturedImage # NoImage /\ Len(a.detectedObjects) > 0
\* The buttons that can be pressed: rendered, and not disabled.
CaptureEnabled(a) == ScannerShown(a) /\ a.capturedImage = NoImage /\ ~a.isInferring
RetakeEnabled(a) ==
    ScannerShown(a) /\ a.capturedImage # NoImage /\ ~(a.isSaving \/ a.isInferring)

SaveEnabled(a) ==
    /\ ScannerShown(a)
    /\ a.capturedImage # NoImage
    /\ ~(a.inferenceResult = NoResult \/ a.isSaving \/ a.isInferring)
NextItemEnabled(a) ==
    /\ ScannerShown(a)
    /\ a.capturedImage # NoImage
    /\ a.scanned > 0
    /\ a.inferenceResult # NoResult
    /\ ~(a.isSaving \/ a.isInferring)

InitAdmin ==
    /\ apiKey = FALSE
    /\ engineQuotesInput = FALSE
    /\ imageDataUrl = <<>>
    /\ pc = "idle"
    /\ attempt = 0
    /\ lastError = NoError
    /\ requests = <<>>
    /\ waits = <<>>
    /\ log = <<>>
    /\ response = NoResponse
    /\ outcome = Pending
    /\ pool = NoPool
    /\ relay = NoRelay
    /\ auth = NoAuth
    /\ \E key \in AccessKeys : admin = MountedAdmin(key)

\* What the scanner page leaves alone.
adminFrame == <<apiKey, engineQuotesInput, imageDataUrl, pc, attempt, lastError,
                requests, waits, log, response, outcome, pool, relay, auth>>

\* fetchSchool settles: at once without a key, else with the row of the key
\* or with an error.
AdminSchoolSettles ==
    /\ admin.loadingSchool
    /\ IF admin.key = ""
       THEN admin' = SchoolKeyMissing(admin)
       ELSE \E data \in {"", SchoolOf(admin.key)} : admin' = SchoolSettled(admin, data)
    /\ UNCHANGED adminFrame

\* fetchScannedItemsToday settles, with the rows of the school or without.
AdminItemsSettle ==
    /\ admin.itemsLoading
    /\ \/ \E existing \in 0..1 :
             admin' = [admin EXCEPT !.itemsLoading = FALSE,
                                    !.scanned = existing + admin.saved,
                                    !.last = "items"]
       \/ admin' = [admin EXCEPT !.itemsLoading = FALSE, !.last = "items"]
    /\ UNCHANGED adminFrame

AdminCapture ==
    /\ CaptureEnabled(admin)
    /\ admin.captures < MaxCaptures
    /\ \E imageSrc \in {NoImage, admin.captures + 1} : admin' = Captured(admin, imageSrc)
    /\ UNCHANGED adminFrame

AdminInferenceSucceeds ==
    /\ admin.inferring # <<>>
    /\ \E n \in 0..MaxDetected : admin' = InferenceSucceeded(admin, n)
    /\ UNCHANGED adminFrame

AdminInferenceFails ==
    /\ admin.inferring # <<>>
    /\ admin' = InferenceFailed(admin)
    /\ UNCHANGED adminFrame

AdminObjectSelect ==
    /\ DetectedShown(admin)
    /\ \E index \in 0..(Len(admin.detectedObjects) - 1) :
         admin' = ObjectSelected(admin, index)
    /\ UNCHANGED adminFrame

\* The plus and minus buttons of the quantity.
AdminQuantity ==
    /\ DetectedShown(admin)
    /\ \/ /\ admin.quantity < MaxQuantity
          /\ admin' = [admin EXCEPT !.quantity = @ + 1, !.last = "quantity"]
       \/ admin' = [admin EXCEPT !.quantity = IF @ - 1 < 1 THEN 1 ELSE @ - 1,
                                 !.last = "quantity"]
    /\ UNCHANGED adminFrame

AdminRetake ==
    /\ RetakeEnabled(admin)
    /\ admin' = Retaken(admin)
    /\ UNCHANGED adminFrame

AdminSave ==
    /\ SaveEnabled(admin)
    /\ Len(admin.inserts) < MaxInserts
    /\ admin' = SaveStarted(admin)
    /\ UNCHANGED adminFrame

AdminSaveSucceeds ==
    /\ admin.saving # <<>>
    /\ admin' = SaveSucceeded(admin)
    /\ UNCHANGED adminFrame

AdminSaveFails ==
    /\ admin.saving # <<>>
    /\ admin' = SaveFailed(admin)
    /\ UNCHANGED adminFrame

AdminNextItem ==
    /\ NextItemEnabled(admin)
    /\ admin' = NextItem(admin)
    /\ UNCHANGED adminFrame

\* View Scanned Items, and Back to Camera Scanner.
AdminSummary ==
    /\ \/ ScannerShown(admin) /\ admin.scanned > 0
       \/ ~admin.loadingSchool /\ admin.isValidKey # "false" /\ admin.school # ""
            /\ admin.showSummary
    /\ admin' = [admin EXCEPT !.showSummary = ~@, !.last = "summary"]
    /\ UNCHANGED adminFrame

NextAdmin ==
    \/ AdminSchoolSettles
    \/ AdminItemsSettle
    \/ AdminCapture
    \/ AdminInferenceSucceeds
    \/ AdminInferenceFails
    \/ AdminObjectSelect
    \/ AdminQuantity
    \/ AdminRetake
    \/ AdminSave
    \/ AdminSaveSucceeds
    \/ AdminSaveFails
    \/ AdminNextItem
    \/ AdminSummary

SpecAdmin == InitAdmin /\ [][NextAdmin]_vars

\* ---------------------------------------------------------------------------
\* Claims about the scanner page.

\* C25: when handleNextItem has run, from the button or after a save, nothing
\* of the previous capture is left: no image, no result, quantity 1, neither
\* flag set, no detected objects and the selection at 0.
C25_NextItemClearsScanner ==
    admin.last \in {"nextItem", "saved"} =>
        /\ admin.capturedImage = NoImage
        /\ admin.inferenceResult = NoResult
        /\ admin.quantity = 1
        /\ ~admin.isInferring
        /\ ~admin.isSaving
        /\ admin.detectedObjects = <<>>
        /\ admin.selectedObjectIndex = 0

\* C28: every row sent for insertion was built with a result, a school and an
\* image set; its name and value come from the inference of the image it
\* carries, the one on the screen when Save was pressed, and its school is the
\* one the access key resolved to.
C28_InsertsAreCurrent ==
    /\ \A i \in 1..Len(admin.inserts) :
          LET row == admin.inserts[i]
          IN  /\ row.name # NoResult
              /\ row.image_url # NoImage
              /\ row.school_id # ""
              /\ row.name.image = row.image_url
              /\ row.estimated_value.image = row.image_url
              /\ row.name.object \in 0..MaxDetected
              /\ row.school_id = SchoolOf(admin.key)
    /\ SaveEnabled(admin) => admin.inferenceResult.image = admin.capturedImage

C28_Witness ==
    /\ Len(admin.inserts) = 2
    /\ admin.inserts[1].image_url = 1
    /\ admin.inserts[2].image_url = 2
    /\ admin.inserts[2].name = Item(2, 1)
    /\ admin.saved = 2

\* C29: at most one inference call is in flight, and isInferring is true
\* exactly while one is.
C29_OneInferenceInFlight ==
    /\ Len(admin.inferring) <= 1
    /\ admin.isInferring <=> admin.inferring # <<>>
    /\ admin.isInferring =>
          ~(CaptureEnabled(admin) \/ RetakeEnabled(admin) \/ SaveEnabled(admin)
              \/ NextItemEnabled(admin))
    /\ admin.saving # <<>> => ~CaptureEnabled(admin)

C29_Witness ==
    /\ admin.isInferring
    /\ admin.inferring = <<2>>
    /\ admin.inferenceResult # NoResult
    /\ admin.saved = 1

(***************************************************************************)
(* AuthPage: handleSubmit of the sign-in and sign-up form.                 *)
(***************************************************************************)
MaxSubmits == 3

\* The page as it mounts.  pc: where the running handleSubmit waits; flow:
\* the branch it took; session: whether the client holds a signed-in session;
\* account, company: whether the sign-up of the running handleSubmit created
\* the account and the company record; insertFailed: whether its insert
\* failed; toast: the toast it raised; calls: the calls of the Supabase client
\* it made.
MountedAuth ==
    [page |-> "auth", isSignUp |-> FALSE, loading |-> FALSE, pc |-> "idle",
     flow |-> "none", session |-> FALSE, account |-> FALSE, company |-> FALSE,
     insertFailed |-> FALSE, toast |-> "none", calls |-> <<>>,
     submits |-> 0]

\* The finally block of handleSubmit.
SubmitFinished(u) == [u EXCEPT !.pc = "idle", !.loading = FALSE]

\* The catch block of handleSubmit, then finally.
SubmitCaught(u) == SubmitFinished([u EXCEPT !.toast = "error"])

\* handleSubmit up to its first await.
Submitted(u) ==
    [u EXCEPT !.loading = TRUE, !.submits = @ + 1, !.toast = "none",
              !.flow = IF u.isSignUp THEN "signUp" ELSE "signIn",
              !.pc = IF u.isSignUp THEN "signUp" ELSE "signIn",
              !.calls = IF u.isSignUp THEN <<"signUp">> ELSE <<"signIn">>,
              !.account = FALSE, !.company = FALSE, !.insertFailed = FALSE]

\* The outcomes of a call of the Supabase client: it resolves without an
\* error, resolves with one, or rejects.
CallOutcomes == {"ok", "error", "rejected"}

\* auth.signUp settles.  A sign-up that resolves without an error has no
\* user, or has created the account, with a session or, when the address is
\* yet to be confirmed, without.
SignUpSettled(u, how, user, session) ==
    IF how # "ok" \/ ~user THEN SubmitCaught(u)
    ELSE [u EXCEPT !.account = TRUE, !.session = session, !.pc = "insert",
                   !.calls = Append(@, "insert")]

\* The insert of the company record settles.
InsertSettled(u, how) ==
    CASE how = "ok" ->
            SubmitFinished([u EXCEPT !.company = TRUE, !.toast = "success"])
      [] how = "error" ->
            [u EXCEPT !.insertFailed = TRUE, !.pc = "signOut",
                      !.calls = Append(@, "signOut")]
      [] OTHER -> SubmitCaught([u EXCEPT !.insertFailed = TRUE])

\* auth.signOut settles: the session is gone when it resolves without an
\* error; else, left (TRUE) or not, it is as the client left it.
SignOutSettled(u, how, left) ==
    SubmitCaught([u EXCEPT !.session = IF how = "ok" THEN FALSE ELSE @ /\ left])

\* auth.signInWithPassword settles.
SignInSettled(u, how) ==
    IF how = "ok"
    THEN SubmitFinished([u EXCEPT !.session = TRUE, !.toast = "success"])
    ELSE SubmitCaught(u)

InitAuth ==
    /\ apiKey = FALSE
    /\ engineQuotesInput = FALSE
    /\ imageDataUrl = <<>>
    /\ pc = "idle"
    /\ attempt = 0
    /\ lastError = NoError
    /\ requests = <<>>
    /\ waits = <<>>
    /\ log = <<>>
    /\ response = NoResponse
    /\ outcome = Pending
    /\ pool = NoPool
    /\ relay = NoRelay
    /\ admin = NoAdmin
    /\ auth = MountedAuth

\* What the page leaves alone.
authFrame == <<apiKey, engineQuotesInput, imageDataUrl, pc, attempt, lastError,
               requests, waits, log, response, outcome, pool, relay, admin>>

\* The link under the form.
AuthToggle ==
    /\ auth' = [auth EXCEPT !.isSignUp = ~@]
    /\ UNCHANGED authFrame

\* The form is submitted: its button is disabled while loading.
AuthSubmit ==
    /\ ~auth.loading
    /\ auth.submits < MaxSubmits
    /\ auth' = Submitted(auth)
    /\ UNCHANGED authFrame

AuthSignUpSettles ==
    /\ auth.pc = "signUp"
    /\ \E how \in CallOutcomes, user \in BOOLEAN, session \in BOOLEAN :
         auth' = SignUpSettled(auth, how, user, session)
    /\ UNCHANGED authFrame

AuthInsertSettles ==
    /\ auth.pc = "insert"
    /\ \E how \in CallOutcomes : auth' = InsertSettled(auth, how)
    /\ UNCHANGED authFrame

AuthSignOutSettles ==
    /\ auth.pc = "signOut"
    /\ \E how \in CallOutcomes, left \in BOOLEAN :
         auth' = SignOutSettled(auth, how, left)
    /\ UNCHANGED authFrame

AuthSignInSettles ==
    /\ auth.pc = "signIn"
    /\ \E how \in CallOutcomes : auth' = SignInSettled(auth, how)
    /\ UNCHANGED authFrame

NextAuth ==
    \/ AuthToggle
    \/ AuthSubmit
    \/ AuthSignUpSettles
    \/ AuthInsertSettles
    \/ AuthSignOutSettles
    \/ AuthSignInSettles

SpecAuth == InitAuth /\ [][NextAuth]_vars

\* handleSubmit has finished.
SubmitDone == auth.submits > 0 /\ auth.pc = "idle"

\* C30: when handleSubmit has finished loading is false; and when its sign-up
\* created the account but the insert of the company record failed, no
\* session is left signed in and the toast is the error, not the success.
C30_FailedSignUpIsUndone ==
    SubmitDone =>
        /\ ~auth.loading
        /\ (auth.flow = "signUp" /\ auth.account /\ auth.insertFailed) =>
              /\ auth.toast = "error"
              /\ ~auth.session
        /\ (auth.flow = "signUp" /\ auth.account /\ auth.session) => auth.company

====
